---- MODULE Spec2Model ----
(***************************************************************************)
(* Model of training/finetune.py: the JSONL loader (load_dataset), the     *)
(* split/eval decisions of train, and the control flow of main.            *)
(*                                                                         *)
(* Text is modelled as a sequence of chunks.  The chunk alphabet is a      *)
(* prefix code in which a role label can only occur chunk-aligned, so an   *)
(* occurrence of a label in the Python string is exactly an occurrence of  *)
(* its chunk sequence here.                                                *)
(***************************************************************************)
EXTENDS Integers, Sequences, FiniteSets, TLC

\* ---------------------------------------------------------------- bounds
MaxStrLen == 3      \* longest prompt/completion, in chunks
MaxLines == 3       \* longest file built from the small line set
MaxRecords == 22    \* largest bulk file (crosses the split threshold)

\* ------------------------------------------------------- program constants
SplitThreshold == 20
TestSizeDen == 10      \* test_size = 0.1 = 1 / TestSizeDen
EvalSteps == 50

\* ------------------------------------------------------------------ text
\* The two Chinese labels are written with their code points: U+7528U+6237
\* is the user label and U+52A9U+624B the assistant label of lines 82-83.
LabelUserZh == <<"U+7528U+6237: ">>
LabelUserEn == <<"Us", "er: ">>
LabelAsstZh == <<"U+52A9U+624B: ">>
LabelAsstEn == <<"Assistant: ">>
Labels == {LabelUserZh, LabelUserEn, LabelAsstZh, LabelAsstEn}

Alphabet == {"U+7528U+6237: ", "Us", "er: ", "U+52A9U+624B: ", "Assistant: ", "hi", " "}
ContentChunks == {"hi", " "}

RECURSIVE SeqsUpTo(_, _)
SeqsUpTo(S, n) ==
  IF n = 0 THEN {<<>>}
  ELSE LET prev == SeqsUpTo(S, n - 1)
       IN prev \cup {Append(s, x) : s \in {t \in prev : Len(t) = n - 1}, x \in S}

Strings == SeqsUpTo(Alphabet, MaxStrLen)

\* str.replace(old, ""): one left-to-right pass deleting non-overlapping
\* occurrences of old.
RECURSIVE Replace(_, _)
Replace(s, old) ==
  IF Len(s) < Len(old) THEN s
  ELSE IF SubSeq(s, 1, Len(old)) = old
       THEN Replace(SubSeq(s, Len(old) + 1, Len(s)), old)
       ELSE <<Head(s)>> \o Replace(Tail(s), old)

\* mutant: the English user label is not removed
StripPromptNoEn(prompt) == Replace(prompt, LabelUserZh)
StripPrompt(prompt) == Replace(Replace(prompt, LabelUserZh), LabelUserEn)
StripCompletion(completion) == Replace(Replace(completion, LabelAsstZh), LabelAsstEn)

TplHead == <<"<|im_start|>user\n">>
TplMid == <<"<|im_end|>\n<|im_start|>assistant\n">>
TplTail == <<"<|im_end|>">>
Template(prompt, completion) == TplHead \o prompt \o TplMid \o completion \o TplTail

Occurs(label, s) ==
  \E k \in 1..Len(s) :
    k + Len(label) - 1 <= Len(s) /\ SubSeq(s, k, k + Len(label) - 1) = label

\* ----------------------------------------------------------- JSON values
Str(s) == [t |-> "str", s |-> s]
EmptyStr == Str(<<>>)
Missing == [t |-> "missing", s |-> <<>>]   \* key absent from the object
Null == [t |-> "null", s |-> <<>>]         \* JSON null -> None
Num == [t |-> "num", s |-> <<>>]           \* a non-zero JSON number

\* Python truthiness of a field value.
Truthy(v) == v.t = "num" \/ (v.t = "str" /\ v.s # <<>>)

\* --------------------------------------------------------------- lines
BlankLine == [kind |-> "blank", prompt |-> Missing, completion |-> Missing]
MalformedLine == [kind |-> "malformed", prompt |-> Missing, completion |-> Missing]
NonObjectLine == [kind |-> "nonobject", prompt |-> Missing, completion |-> Missing]
Obj(p, c) == [kind |-> "object", prompt |-> p, completion |-> c]

\* line.strip() is empty
IsBlank(line) == line.kind = "blank"

\* mutant: a line that does not parse is treated as an empty object
JsonLoadsLenient(line) ==
  IF line.kind = "malformed" THEN [ok |-> TRUE, isdict |-> TRUE, item |-> Obj(Missing, Missing)]
  ELSE [ok |-> TRUE, isdict |-> line.kind = "object", item |-> line]
\* json.loads(line): raises JSONDecodeError on text that is not JSON
JsonLoads(line) ==
  IF line.kind = "malformed" THEN [ok |-> FALSE, isdict |-> FALSE, item |-> line]
  ELSE [ok |-> TRUE, isdict |-> line.kind = "object", item |-> line]

\* item.get(key, "")
Get(v) == IF v.t = "missing" THEN EmptyStr ELSE v

IsWhitespace(s) == \A k \in 1..Len(s) : s[k] = " "
\* mutant: the fields are whitespace-stripped before the test
IncludedStripped(prompt, completion) ==
  /\ Truthy(prompt) /\ Truthy(completion)
  /\ ~(prompt.t = "str" /\ IsWhitespace(prompt.s))
  /\ ~(completion.t = "str" /\ IsWhitespace(completion.s))
\* if prompt and completion:
Included(prompt, completion) == Truthy(prompt) /\ Truthy(completion)

\* mutant: the record is put in front
AppendRecordFront(data, text) == <<text>> \o data
\* data.append({"text": text})
AppendRecord(data, text) == Append(data, text)

\* Outcome of the loop body on one line: "skip", "append", or the exception
LineOutcome(line) ==
  IF IsBlank(line) THEN "skip"
  ELSE LET r == JsonLoads(line) IN
    IF ~r.ok THEN "JSONDecodeError"
    ELSE IF ~r.isdict THEN "AttributeError"
    ELSE LET prompt == Get(r.item.prompt)
             completion == Get(r.item.completion)
         IN IF ~Included(prompt, completion) THEN "skip"
            ELSE IF prompt.t # "str" \/ completion.t # "str" THEN "AttributeError"
            ELSE "append"

LineText(line) ==
  Template(StripPrompt(Get(line.prompt).s), StripCompletion(Get(line.completion).s))

\* ---------------------------------------------------------------- train
\* mutant: the boundary record count itself triggers the split
ShouldSplitAtThreshold(n) == n >= SplitThreshold
\* if len(dataset) > 20:
ShouldSplit(n) == n > SplitThreshold

\* dataset.train_test_split(test_size=0.1, seed=42): the held-out part has
\* ceil(0.1 * n) records, the training part the rest.
TestLen(n) == (n + TestSizeDen - 1) \div TestSizeDen
TrainTestSplit(n) == [train |-> n - TestLen(n), test |-> TestLen(n)]

NoEval == -1    \* eval_dataset = None
\* mutant: evaluation is configured whether or not a split was made
EvalDatasetTruthyAlways(evalLen) == TRUE
\* truth value of `eval_dataset` in lines 174, 178, 199, 206
EvalDatasetTruthy(evalLen) == evalLen # NoEval /\ evalLen > 0

DefaultEvalArgs ==
  [eval_strategy |-> "no", eval_steps |-> 0, load_best_model_at_end |-> FALSE]
StepsEvalArgs ==
  [eval_strategy |-> "steps", eval_steps |-> EvalSteps, load_best_model_at_end |-> TRUE]
TrainingArguments(evalLen) ==
  IF EvalDatasetTruthy(evalLen) THEN StepsEvalArgs ELSE DefaultEvalArgs
\* callbacks list of lines 177-179: the patience of each EarlyStoppingCallback
Callbacks(evalLen, patience) ==
  IF EvalDatasetTruthy(evalLen) THEN <<patience>> ELSE <<>>
NoTrainer ==
  [built |-> FALSE, train_len |-> 0, eval_len |-> NoEval, args |-> DefaultEvalArgs,
   callbacks_none |-> TRUE, callbacks |-> <<>>]
\* SFTTrainer(..., callbacks=callbacks if callbacks else None)
SFTTrainer(trainLen, evalLen, patience) ==
  LET cb == Callbacks(evalLen, patience) IN
  [built |-> TRUE, train_len |-> trainLen, eval_len |-> evalLen,
   args |-> TrainingArguments(evalLen),
   callbacks_none |-> (cb = <<>>), callbacks |-> cb]

\* ----------------------------------------------------------------- main
\* mutant: the missing data file is not noticed
DataFileMissingNever(exists) == FALSE
\* if not os.path.exists(args.data):
DataFileMissing(exists) == ~exists

\* mutant: an empty dataset is not noticed
DatasetEmptyNever(n) == FALSE
\* if len(dataset) == 0:
DatasetEmpty(n) == n = 0

\* mutant: config records the size of train's local training part
TrainSamplesOfTrainer(datasetLen, trainLen) == trainLen
\* "train_samples": len(dataset) in main
TrainSamples(datasetLen, trainLen) == datasetLen

\* mutant: an uncaught exception ends the process with status 0
ExitStatusSwallow(how) ==
  CASE how = "sys_exit_1" -> 1
    [] how = "uncaught" -> 0
    [] how = "usage" -> 2
    [] OTHER -> 0
\* Exit status of the interpreter: sys.exit(1), an uncaught exception (1),
\* an argparse usage error (2), --help or falling off the end of main (0).
ExitStatus(how) ==
  CASE how = "sys_exit_1" -> 1
    [] how = "uncaught" -> 1
    [] how = "usage" -> 2
    [] OTHER -> 0

StageOrder == <<"load_dataset", "setup_model", "setup_lora", "train", "export_model", "metadata">>
Running == -1
NoConfig == [state |-> "absent", train_samples |-> -1]

\* ---------------------------------------------------------------- inputs
Hi == Str(<<"hi">>)
LineA == Obj(Hi, Hi)
LineB == Obj(Str(<<"Us", "er: ", "hi">>), Str(<<"Assistant: ", "hi", " ">>))
SmallValues == {Missing, Null, Num, EmptyStr, Hi, Str(<<" ">>), Str(<<"Assistant: ", "hi">>)}
SmallLines ==
  {BlankLine, MalformedLine, NonObjectLine, LineA, LineB,
   Obj(EmptyStr, Hi), Obj(Hi, Missing), Obj(Str(<<" ">>), Hi), Obj(Num, Hi)}
RichLines ==
  {Obj(Str(p), c) : p \in Strings, c \in SmallValues}
    \cup {Obj(p, Str(c)) : p \in SmallValues, c \in Strings}
RichFiles == {<<l>> : l \in RichLines}
ShortFiles == SeqsUpTo(SmallLines, MaxLines)
Bulk(n) == [k \in 1..n |-> IF k % 2 = 1 THEN LineA ELSE LineB]
BulkFiles ==
  {Bulk(n) : n \in 0..MaxRecords}
    \cup {<<Obj(EmptyStr, Hi)>> \o Bulk(n) : n \in (MaxRecords - 3)..(MaxRecords - 1)}
DefaultPatience == 3
PatienceValues == {1, DefaultPatience}
ArgvOutcomes == {"ok", "usage", "help"}

VARIABLES
  argv,        \* outcome of argparse on the command line
  patience,    \* args.early_stopping_patience
  dataExists,  \* os.path.exists(args.data)
  file,        \* the lines of the data file
  pc,          \* position in main
  exitCode,    \* exit status of the process, Running while it runs
  exc,         \* the uncaught exception, "none" if there is none
  outputDir,   \* the timestamped output directory exists
  i,           \* load_dataset: number of lines consumed
  data,        \* load_dataset: the list being built
  origin,      \* history: for each record of data, the index of its line
  dataset,     \* main: the Dataset returned by load_dataset
  modelLoaded, \* setup_model returned
  loraApplied, \* setup_lora returned
  trainLen,    \* train: len(dataset) of train's local dataset
  evalLen,     \* train: len(eval_dataset), NoEval for None
  splitMade,   \* train: train_test_split was called
  trainer,     \* train: the SFTTrainer built
  trained,     \* trainer.train() returned
  evaluated,   \* trainer.evaluate() was called and returned
  mergedDir,   \* export_model: the merged/ directory exists
  exported,    \* export_model returned
  configFile,  \* config.json
  started,     \* history: stages entered, in order
  completed    \* history: stages that returned, in order

vars ==
  <<argv, patience, dataExists, file, pc, exitCode, exc, outputDir, i, data, origin,
    dataset, modelLoaded, loraApplied, trainLen, evalLen, splitMade, trainer, trained,
    evaluated, mergedDir, exported, configFile, started, completed>>

inputVars == <<argv, patience, dataExists, file>>
loaderVars == <<i, data, origin>>
trainVars == <<trainLen, evalLen, splitMade, trainer, trained, evaluated>>
fsVars == <<outputDir, mergedDir, configFile>>

Init ==
  /\ \/ /\ argv = "ok" /\ dataExists = TRUE
        /\ \/ file \in RichFiles \cup ShortFiles /\ patience = DefaultPatience
           \/ file \in BulkFiles /\ patience \in PatienceValues
     \/ /\ argv = "ok" /\ dataExists = FALSE /\ file = <<>> /\ patience \in PatienceValues
     \/ /\ argv \in ArgvOutcomes \ {"ok"} /\ dataExists \in BOOLEAN
        /\ file = <<>> /\ patience = DefaultPatience
  /\ pc = "parse_args"
  /\ exitCode = Running
  /\ exc = "none"
  /\ outputDir = FALSE
  /\ i = 0 /\ data = <<>> /\ origin = <<>>
  /\ dataset = <<>>
  /\ modelLoaded = FALSE /\ loraApplied = FALSE
  /\ trainLen = 0 /\ evalLen = NoEval /\ splitMade = FALSE
  /\ trainer = NoTrainer /\ trained = FALSE /\ evaluated = FALSE
  /\ mergedDir = FALSE /\ exported = FALSE
  /\ configFile = NoConfig
  /\ started = <<>> /\ completed = <<>>

\* The process ends: sys.exit, an uncaught exception, or the end of main.
Exit(how, e) ==
  /\ pc' = IF how = "uncaught" THEN "raised" ELSE "exited"
  /\ exc' = e
  /\ exitCode' = ExitStatus(how)

Goto(l) == pc' = l /\ UNCHANGED <<exc, exitCode>>

\* args = parse_args()
ParseArgs ==
  /\ pc = "parse_args"
  /\ IF argv = "ok" THEN Goto("check_data") ELSE Exit(argv, "none")
  /\ UNCHANGED <<inputVars, loaderVars, trainVars, fsVars, dataset, modelLoaded,
                 loraApplied, exported, started, completed>>

\* if not os.path.exists(args.data): print; sys.exit(1)
CheckDataFile ==
  /\ pc = "check_data"
  /\ IF DataFileMissing(dataExists) THEN Exit("sys_exit_1", "none") ELSE Goto("makedirs")
  /\ UNCHANGED <<inputVars, loaderVars, trainVars, fsVars, dataset, modelLoaded,
                 loraApplied, exported, started, completed>>

\* os.makedirs(output_dir, exist_ok=True); device selection
MakeOutputDir ==
  /\ pc = "makedirs"
  /\ \E ok \in BOOLEAN :
       IF ok THEN outputDir' = TRUE /\ Goto("load_open")
       ELSE outputDir' = FALSE /\ Exit("uncaught", "OSError")
  /\ UNCHANGED <<inputVars, loaderVars, trainVars, mergedDir, configFile, dataset,
                 modelLoaded, loraApplied, exported, started, completed>>

\* load_dataset: data = []; open(data_path)
LoadOpen ==
  /\ pc = "load_open"
  /\ started' = Append(started, "load_dataset")
  /\ i' = 0 /\ data' = <<>> /\ origin' = <<>>
  /\ IF dataExists
       THEN \E ok \in BOOLEAN :
              IF ok THEN Goto("load_loop") ELSE Exit("uncaught", "OSError")
       ELSE Exit("uncaught", "OSError")
  /\ UNCHANGED <<inputVars, trainVars, fsVars, dataset, modelLoaded, loraApplied,
                 exported, completed>>

\* load_dataset: one iteration of `for line in f`
LoadLine ==
  /\ pc = "load_loop"
  /\ i < Len(file)
  /\ LET line == file[i + 1]
         out == LineOutcome(line)
     IN /\ i' = i + 1
        /\ IF out = "append"
             THEN /\ data' = AppendRecord(data, LineText(line))
                  /\ origin' = Append(origin, i + 1)
             ELSE UNCHANGED <<data, origin>>
        /\ IF out \in {"skip", "append"} THEN Goto("load_loop")
           ELSE Exit("uncaught", out)
  /\ UNCHANGED <<inputVars, trainVars, fsVars, dataset, modelLoaded, loraApplied,
                 exported, started, completed>>

\* load_dataset: print the count; return Dataset.from_list(data)
LoadReturn ==
  /\ pc = "load_loop"
  /\ i = Len(file)
  /\ dataset' = data
  /\ completed' = Append(completed, "load_dataset")
  /\ Goto("check_empty")
  /\ UNCHANGED <<inputVars, loaderVars, trainVars, fsVars, modelLoaded, loraApplied,
                 exported, started>>

\* if len(dataset) == 0: print; sys.exit(1)
CheckEmpty ==
  /\ pc = "check_empty"
  /\ IF DatasetEmpty(Len(dataset)) THEN Exit("sys_exit_1", "none") ELSE Goto("setup_model")
  /\ UNCHANGED <<inputVars, loaderVars, trainVars, fsVars, dataset, modelLoaded,
                 loraApplied, exported, started, completed>>

\* model, tokenizer = setup_model(args.model, device)
SetupModel ==
  /\ pc = "setup_model"
  /\ started' = Append(started, "setup_model")
  /\ \E ok \in BOOLEAN :
       IF ok THEN /\ modelLoaded' = TRUE
                  /\ completed' = Append(completed, "setup_model")
                  /\ Goto("setup_lora")
       ELSE /\ UNCHANGED <<modelLoaded, completed>>
            /\ Exit("uncaught", "LibraryError")
  /\ UNCHANGED <<inputVars, loaderVars, trainVars, fsVars, dataset, loraApplied, exported>>

\* model = setup_lora(model, args.lora_r)
SetupLora ==
  /\ pc = "setup_lora"
  /\ started' = Append(started, "setup_lora")
  /\ \E ok \in BOOLEAN :
       IF ok THEN /\ loraApplied' = TRUE
                  /\ completed' = Append(completed, "setup_lora")
                  /\ Goto("train_split")
       ELSE /\ UNCHANGED <<loraApplied, completed>>
            /\ Exit("uncaught", "LibraryError")
  /\ UNCHANGED <<inputVars, loaderVars, trainVars, fsVars, dataset, modelLoaded, exported>>

\* train: eval_dataset = None; the conditional train_test_split
TrainSplit ==
  /\ pc = "train_split"
  /\ started' = Append(started, "train")
  /\ IF ShouldSplit(Len(dataset))
       THEN LET split == TrainTestSplit(Len(dataset))
            IN trainLen' = split.train /\ evalLen' = split.test /\ splitMade' = TRUE
       ELSE trainLen' = Len(dataset) /\ evalLen' = NoEval /\ splitMade' = FALSE
  /\ Goto("train_configure")
  /\ UNCHANGED <<inputVars, loaderVars, fsVars, dataset, modelLoaded, loraApplied,
                 trainer, trained, evaluated, exported, completed>>

\* train: TrainingArguments, callbacks, SFTTrainer
TrainConfigure ==
  /\ pc = "train_configure"
  /\ \E ok \in BOOLEAN :
       IF ok THEN trainer' = SFTTrainer(trainLen, evalLen, patience) /\ Goto("trainer_train")
       ELSE UNCHANGED trainer /\ Exit("uncaught", "LibraryError")
  /\ UNCHANGED <<inputVars, loaderVars, fsVars, dataset, modelLoaded, loraApplied,
                 trainLen, evalLen, splitMade, trained, evaluated, exported, started,
                 completed>>

\* train: result = trainer.train()
TrainerTrain ==
  /\ pc = "trainer_train"
  /\ \E ok \in BOOLEAN :
       IF ok THEN trained' = TRUE /\ Goto("trainer_evaluate")
       ELSE UNCHANGED trained /\ Exit("uncaught", "LibraryError")
  /\ UNCHANGED <<inputVars, loaderVars, fsVars, dataset, modelLoaded, loraApplied,
                 trainLen, evalLen, splitMade, trainer, evaluated, exported, started,
                 completed>>

\* train: if eval_dataset: trainer.evaluate(); return trainer
TrainerEvaluate ==
  /\ pc = "trainer_evaluate"
  /\ IF EvalDatasetTruthy(evalLen)
       THEN \E ok \in BOOLEAN :
              IF ok THEN /\ evaluated' = TRUE
                         /\ completed' = Append(completed, "train")
                         /\ Goto("export_model")
              ELSE /\ UNCHANGED <<evaluated, completed>>
                   /\ Exit("uncaught", "LibraryError")
       ELSE /\ UNCHANGED evaluated
            /\ completed' = Append(completed, "train")
            /\ Goto("export_model")
  /\ UNCHANGED <<inputVars, loaderVars, fsVars, dataset, modelLoaded, loraApplied,
                 trainLen, evalLen, splitMade, trainer, trained, exported, started>>

\* export_model(model, tokenizer, output_dir, ...)
ExportModel ==
  /\ pc = "export_model"
  /\ started' = Append(started, "export_model")
  /\ \E out \in {"ok", "makedirs_raises", "save_raises"} :
       /\ mergedDir' = (out # "makedirs_raises")
       /\ IF out = "ok"
            THEN /\ exported' = TRUE
                 /\ completed' = Append(completed, "export_model")
                 /\ Goto("write_config")
            ELSE /\ UNCHANGED <<exported, completed>>
                 /\ Exit("uncaught", IF out = "makedirs_raises" THEN "OSError" ELSE "LibraryError")
  /\ UNCHANGED <<inputVars, loaderVars, trainVars, outputDir, configFile, dataset,
                 modelLoaded, loraApplied>>

\* config = {...}; with open(config.json, "w") as f: json.dump(config, f)
WriteConfig ==
  /\ pc = "write_config"
  /\ started' = Append(started, "metadata")
  /\ \E out \in {"ok", "open_raises", "dump_raises"} :
       /\ configFile' =
            CASE out = "ok" ->
                   [state |-> "complete",
                    train_samples |-> TrainSamples(Len(dataset), trainLen)]
              [] out = "dump_raises" -> [state |-> "partial", train_samples |-> -1]
              [] OTHER -> NoConfig
       /\ IF out = "ok"
            THEN completed' = Append(completed, "metadata") /\ Goto("finish")
            ELSE UNCHANGED completed /\ Exit("uncaught", "OSError")
  /\ UNCHANGED <<inputVars, loaderVars, trainVars, outputDir, mergedDir, dataset,
                 modelLoaded, loraApplied, exported>>

\* the closing prints; main returns
Finish ==
  /\ pc = "finish"
  /\ Exit("normal", "none")
  /\ UNCHANGED <<inputVars, loaderVars, trainVars, fsVars, dataset, modelLoaded,
                 loraApplied, exported, started, completed>>

Next ==
  \/ ParseArgs
  \/ CheckDataFile
  \/ MakeOutputDir
  \/ LoadOpen
  \/ LoadLine
  \/ LoadReturn
  \/ CheckEmpty
  \/ SetupModel
  \/ SetupLora
  \/ TrainSplit
  \/ TrainConfigure
  \/ TrainerTrain
  \/ TrainerEvaluate
  \/ ExportModel
  \/ WriteConfig
  \/ Finish

Spec == Init /\ [][Next]_vars

Ended == pc \in {"exited", "raised"}
TypeOK ==
  /\ pc \in {"parse_args", "check_data", "makedirs", "load_open", "load_loop",
             "check_empty", "setup_model", "setup_lora", "train_split",
             "train_configure", "trainer_train", "trainer_evaluate", "export_model",
             "write_config", "finish", "exited", "raised"}
  /\ exitCode \in {Running, 0, 1, 2}
  /\ (exitCode = Running) <=> ~Ended
  /\ i \in 0..Len(file)
  /\ Len(origin) = Len(data)

\* ------------------------------------------------------------ vocabulary
IsPrefix(s, t) == Len(s) <= Len(t) /\ SubSeq(t, 1, Len(s)) = s
Range(f) == {f[k] : k \in DOMAIN f}
LoaderReturned == "load_dataset" \in Range(completed)
ZeroRecords == LoaderReturned /\ Len(dataset) = 0
NoLabelIn(text) == \A l \in Labels : ~Occurs(l, text)
PresentNonEmpty(v) == v.t = "str" /\ Len(v.s) > 0
NonEmptyAfterStrip(v) == v.t = "str" /\ \E k \in 1..Len(v.s) : v.s[k] # " "
TextField(v) == v.t \in {"str", "missing", "null"}
StringFields(line) ==
  line.kind = "object" /\ TextField(line.prompt) /\ TextField(line.completion)
Contributes(k) == k \in Range(origin)
WellFormedFile ==
  \A k \in 1..Len(file) :
    /\ file[k].kind = "object"
    /\ PresentNonEmpty(file[k].prompt) /\ PresentNonEmpty(file[k].completion)
LabelFree(s) == \A k \in 1..Len(s) : s[k] \in ContentChunks
Rest(s, l) == SubSeq(s, Len(l) + 1, Len(s))
PromptLabels == {LabelUserZh, LabelUserEn}
CompletionLabels == {LabelAsstZh, LabelAsstEn}

\* ------------------------------------------------------------------- C1
\* C1 as stated: a line that is not well-formed JSON is passed over without
\* an error, so no run ends in a JSON decode error.
C1_MalformedSkipped ==
  \A k \in 1..i : file[k].kind = "malformed" => exc # "JSONDecodeError"

\* C1 amended: a line that is not well-formed JSON makes json.loads raise;
\* the exception leaves load_dataset uncaught, so the malformed line is the
\* last line read, no Dataset is returned and the run ends with the error.
C1_MalformedRaises ==
  \A k \in 1..i :
    file[k].kind = "malformed" =>
      /\ k = i
      /\ pc = "raised" /\ exc = "JSONDecodeError"
      /\ ~LoaderReturned /\ dataset = <<>>
      /\ started = <<"load_dataset">>

C1_Witness ==
  /\ i >= 2 /\ i < Len(file)
  /\ file[i].kind = "malformed"
  /\ Len(data) >= 1
  /\ LineOutcome(file[i + 1]) = "append"
  /\ pc = "raised"

\* ------------------------------------------------------------------- C2
\* C2 as stated: a line with string fields contributes a record exactly when
\* prompt and completion are both non-empty after whitespace stripping.
C2_StrippedNonEmpty ==
  \A k \in 1..i :
    StringFields(file[k]) =>
      (Contributes(k) <=>
         NonEmptyAfterStrip(file[k].prompt) /\ NonEmptyAfterStrip(file[k].completion))

\* C2 amended: a line that parses to an object whose prompt and completion
\* are strings, null or absent contributes exactly one record when both are
\* present and non-empty as parsed, and none otherwise; the values are not
\* whitespace-stripped, so a whitespace-only value counts as non-empty.
C2_TruthyIncluded ==
  /\ \A k \in 1..i :
       StringFields(file[k]) =>
         (Contributes(k) <=>
            PresentNonEmpty(file[k].prompt) /\ PresentNonEmpty(file[k].completion))
  /\ \A a, b \in 1..Len(origin) : a < b => origin[a] < origin[b]
  /\ Len(data) = Len(origin)
  /\ \A k \in Range(origin) : k \in 1..i

C2_Witness ==
  /\ i >= 1
  /\ file[i].kind = "object"
  /\ file[i].prompt = Str(<<" ">>)
  /\ Contributes(i)
  /\ LoaderReturned

\* ------------------------------------------------------------------- C3
\* C3 as stated: no templated text contains any of the four label strings.
C3_NoResidualLabel == \A r \in 1..Len(data) : NoLabelIn(data[r])

\* C3 amended: when the prompt is an optional user label followed by
\* label-free content and the completion an optional assistant label
\* followed by label-free content, the templated text is the template around
\* exactly that content and holds no label string.
C3_PrefixStripped ==
  \A r \in 1..Len(data) :
    LET p == file[origin[r]].prompt.s
        c == file[origin[r]].completion.s
    IN \A lp \in PromptLabels \cup {<<>>}, lc \in CompletionLabels \cup {<<>>} :
         (/\ IsPrefix(lp, p) /\ LabelFree(Rest(p, lp))
          /\ IsPrefix(lc, c) /\ LabelFree(Rest(c, lc)))
           => /\ data[r] = TplHead \o Rest(p, lp) \o TplMid \o Rest(c, lc) \o TplTail
              /\ NoLabelIn(data[r])

C3_Witness ==
  /\ Len(data) = 1
  /\ file[origin[1]].prompt = Str(<<"Us", "er: ", "hi">>)
  /\ file[origin[1]].completion = Str(<<"Assistant: ", "hi">>)
  /\ LoaderReturned

\* ------------------------------------------------------------------- C4
\* C4: when every line has a non-empty prompt and completion, the loader
\* holds one record per line read, in file order, and the Dataset it returns
\* has as many records as the file has lines.
C4_OnePerLineInOrder ==
  WellFormedFile =>
    /\ Len(data) = i
    /\ \A k \in 1..Len(data) :
         /\ origin[k] = k
         /\ data[k] = LineText(file[k])
    /\ LoaderReturned => (dataset = data /\ Len(dataset) = Len(file))

C4_Witness ==
  /\ WellFormedFile
  /\ LoaderReturned
  /\ Len(dataset) >= 2
  /\ dataset[1] # dataset[2]

\* ------------------------------------------------------------------- C5
SplitDecided == "train" \in Range(started)

\* C5: train splits exactly when it receives more than 20 records; the split
\* holds out ceil(0.1 * n) records, and the trainer gets a validation set
\* exactly when the split was made, the whole dataset otherwise.
C5_SplitIffOver20 ==
  SplitDecided =>
    LET n == Len(dataset) IN
    /\ splitMade <=> n > 20
    /\ n = 21 => splitMade
    /\ n = 20 => ~splitMade
    /\ splitMade =>
         /\ trainLen + evalLen = n
         /\ evalLen >= 1 /\ 10 * evalLen >= n /\ 10 * (evalLen - 1) < n
    /\ ~splitMade => (trainLen = n /\ evalLen = NoEval)
    /\ trainer.built =>
         /\ trainer.train_len = trainLen
         /\ trainer.eval_len = evalLen
         /\ (trainer.eval_len # NoEval) <=> n > 20

C5_Witness ==
  /\ Len(dataset) = 21
  /\ splitMade
  /\ trainer.built
  /\ trainer.eval_len = 3 /\ trainer.train_len = 18

\* ------------------------------------------------------------------- C6
NoSideEffect ==
  /\ ~outputDir /\ ~mergedDir /\ configFile = NoConfig
  /\ started = <<>> /\ completed = <<>>
  /\ i = 0 /\ data = <<>> /\ dataset = <<>>
  /\ ~modelLoaded /\ ~loraApplied /\ ~trainer.built /\ ~trained /\ ~evaluated
  /\ ~exported

\* C6: with a data path that does not exist, the run makes no directory,
\* never calls the loader or any later stage, and ends with status 1.
C6_MissingDataExits1 ==
  (argv = "ok" /\ ~dataExists) =>
    /\ NoSideEffect
    /\ Ended => (pc = "exited" /\ exitCode = 1 /\ exc = "none")

C6_Witness == argv = "ok" /\ ~dataExists /\ Ended

\* ------------------------------------------------------------------- C7
\* C7 as stated: the exit status is 1 exactly when the data file is missing
\* or the loader returned zero records, and 0 in every other run.
C7_ExitOneOnlyOnChecks ==
  (Ended /\ argv = "ok") =>
    /\ exitCode \in {0, 1}
    /\ exitCode = 1 <=> (~dataExists \/ ZeroRecords)

\* C7 amended: the exit status is 1 exactly when the data file is missing,
\* the loader returned zero records, or an uncaught exception ended the run
\* (a line that fails to parse, a library call that raises); it is 0 exactly
\* when main ran to its end or argparse printed the help, and 2 exactly on
\* an argparse usage error.
C7_ExitStatus ==
  Ended =>
    /\ exitCode = 1 <=> (argv = "ok" /\ (~dataExists \/ ZeroRecords \/ pc = "raised"))
    /\ exitCode = 0 <=>
         (argv = "help" \/ (completed = StageOrder /\ configFile.state = "complete"))
    /\ exitCode = 2 <=> argv = "usage"

C7_Witness ==
  /\ pc = "raised" /\ exc = "JSONDecodeError" /\ exitCode = 1
  /\ dataExists /\ ~ZeroRecords

C9_EvalAllOrNothing ==
  /\ trainer.built =>
       /\ splitMade <=> Len(dataset) > 20
       /\ splitMade =>
            /\ trainer.args.eval_strategy = "steps"
            /\ trainer.args.eval_steps = 50
            /\ trainer.args.load_best_model_at_end
            /\ ~trainer.callbacks_none
            /\ trainer.callbacks = <<patience>>
       /\ ~splitMade =>
            /\ trainer.args = DefaultEvalArgs
            /\ trainer.callbacks_none
  /\ evaluated => splitMade
  /\ "train" \in Range(completed) => (evaluated <=> splitMade)

C9_Witness ==
  /\ "train" \in Range(completed)
  /\ splitMade /\ evaluated
  /\ patience = 1
  /\ trainer.callbacks = <<1>>

\* ------------------------------------------------------------------ C10
ValidLines == {k \in 1..Len(file) : LineOutcome(file[k]) = "append"}

\* C10: train_samples in config.json is the number of records load_dataset
\* returned, also when train held some of them out for validation: it then
\* exceeds the number of records trained on by the size of the held-out part.
C10_TrainSamplesIsLoaded ==
  configFile.state = "complete" =>
    /\ configFile.train_samples = Cardinality(ValidLines)
    /\ configFile.train_samples = Len(dataset)
    /\ splitMade =>
         /\ configFile.train_samples > trainer.train_len
         /\ configFile.train_samples = trainer.train_len + trainer.eval_len
    /\ ~splitMade => configFile.train_samples = trainer.train_len

C10_Witness ==
  /\ configFile.state = "complete"
  /\ splitMade
  /\ configFile.train_samples = 22
  /\ trainer.train_len = 19
====
